---- MODULE Spec2Model ----
(***************************************************************************)
(* Survivor-pool backend (src/app.js, src/serve.mjs): the three JSON       *)
(* stores (config, players, games) and the request handlers that read and  *)
(* write them.  Every handler of app.js is synchronous, so each one is a   *)
(* single atomic action.  Fields that no handler ever branches on (player  *)
(* names beyond the default, scores, lockMessage, the admin password) are  *)
(* left out.  `last` is the request handled last and its response, and     *)
(* `remaining` the number of requests a behaviour may still handle.  The   *)
(* handlers of serve.mjs suspend once, at `await parseBody(req)`;          *)
(* `pending` holds the requests received by serve.mjs, suspended or        *)
(* answered, and the stores as they were before the first of them.         *)
(***************************************************************************)
EXTENDS Integers, Sequences, FiniteSets, TLC

VARIABLES config, players, games, last, remaining, pending

vars == <<config, players, games, last, remaining, pending>>

----------------------------------------------------------------------------
(* Bounds of the model.                                                    *)

\* requests handled in one behaviour that starts from the construction
MaxOps == 3
\* largest player id the admin create route may hand out
MaxId == 2
\* requests handled in one behaviour that starts from a seeded store
MaxRequests == 1
\* requests serve.mjs receives in one behaviour (they may all overlap)
MaxInflight == 2
\* admin player requests handled in one behaviour of the roster editor
MaxAdminOps == 4

----------------------------------------------------------------------------
(* Program constants.                                                      *)

DAY_ORDER ==
  << "thursday_r1", "friday_r1", "saturday_r2", "sunday_r2",
     "thursday_s16", "friday_s16", "saturday_e8", "sunday_e8",
     "saturday_ff", "monday_champ" >>

\* buy-in unit added to totalSpent by a buyback
BuyIn == 25
\* buyback limit
MaxBuybacks == 3

Range(s) == { s[i] : i \in DOMAIN s }

Days == Range(DAY_ORDER)

\* a day string that is not in DAY_ORDER (no handler validates the day)
OtherDay == "practice_day"

\* absent / null / undefined value of a string field
NULL == "null"

\* an object without keys ({} in the JSON files)
EmptyObj == << >>

Has(obj, key) == key \in DOMAIN obj

\* no request of serve.mjs was received
NoPending == [origin |-> EmptyObj, reqs |-> << >>]

\* obj[key] = val, as a new object
Put(obj, key, val) == (key :> val) @@ obj

----------------------------------------------------------------------------
(* Input domains.                                                          *)

Roster == << "T1", "T2", "T3", "T4" >>
BadTeam == "XX"

PickLists ==
  { << >>, <<"T1">>, <<"T3">>, <<"T1", "T1">>, <<"T1", "T2">>, <<"T2", "T3">>,
    <<"T1", BadTeam>>, <<"T2", "T3", "T4">>,
    <<"T1", "T2", "T3", "T4">> }

\* days named in pick submissions and in game uploads
SubmitDays == { "thursday_r1", "friday_r1", "saturday_r2" }

\* days named in process-day requests (NULL: the field is missing)
ProcessDays == Days \cup { OtherDay, NULL }

\* the day sets stored as config.buybackDays
BuybackDaySets == { {}, {"friday_r1", "saturday_r2"} }

Game(id, home, away, final, winner) ==
  [id |-> id, home |-> home, away |-> away, final |-> final, winner |-> winner]

\* the games arrays the admin uploads for a day
GameLists ==
  { << >>,
    << Game(1, "T1", "T2", FALSE, NULL) >>,
    << Game(1, "T1", "T2", TRUE, NULL) >>,
    << Game(1, "T1", "T2", TRUE, "T1") >>,
    << Game(1, "T1", "T2", TRUE, "T1"), Game(2, "T3", BadTeam, TRUE, "T3") >> }

\* bodies of game-result requests: only the fields present are written
GameResultBodies ==
  { [final |-> TRUE], [winner |-> "T3"], [final |-> TRUE, winner |-> "T1"] }

\* bodies of admin config requests
ConfigBodies ==
  { [siteLocked |-> b] : b \in BOOLEAN }
    \cup { [buybackDays |-> s] : s \in BuybackDaySets }
    \cup { [currentDay |-> d] : d \in { "thursday_r1", OtherDay } }

\* bodies of admin player requests, without the id field
PlayerFields ==
  { EmptyObj,
    [buybacks |-> 1], [buybacks |-> 3], [buybacks |-> 4],
    [status |-> "eliminated"], [status |-> "alive"],
    [needsBuyback |-> TRUE],
    [picks |-> [thursday_r1 |-> <<"T1", "T2">>, friday_r1 |-> <<"T1", "T3">>]],
    [picks |-> [saturday_r2 |-> << >>]] }

PlayerBodies ==
  PlayerFields \cup { ("id" :> i) @@ b : i \in 1..MaxId, b \in PlayerFields }

----------------------------------------------------------------------------
(* Shared logic.                                                           *)

\* faulty variant: the four-pick case of the second day is forgotten
getRequiredPicks_NoFour(player, day) ==
  IF ~player.needsBuyback
  THEN IF day = "thursday_r1" \/ day = "friday_r1" THEN 2 ELSE 1
  ELSE 3

getRequiredPicks(player, day) ==
  IF ~player.needsBuyback
  THEN IF day = "thursday_r1" \/ day = "friday_r1" THEN 2 ELSE 1
  ELSE IF day = "friday_r1" THEN 4 ELSE 3

\* DAY_ORDER.indexOf(day), 1-based; 0 when the day is not in the list
indexOf(day) ==
  IF day \in Days THEN CHOOSE i \in DOMAIN DAY_ORDER : DAY_ORDER[i] = day ELSE 0

\* players.findIndex(p => p.id === id), 1-based; 0 when there is none
findIndex(ps, id) ==
  IF \E i \in DOMAIN ps : ps[i].id = id
  THEN CHOOSE i \in DOMAIN ps :
         ps[i].id = id /\ \A j \in DOMAIN ps : ps[j].id = id => i <= j
  ELSE 0

\* Object.values(player.picks).flat(), as a set
usedTeams(player) ==
  UNION { Range(player.picks[d]) : d \in DOMAIN player.picks }

----------------------------------------------------------------------------
(* POST /api/picks                                                         *)

\* faulty variant: the roster check runs before the reuse check
validatePicks_RosterFirst(cfg, player, day, picks, isBuyback) ==
  IF Has(player.picks, day) THEN "AlreadySubmitted"
  ELSE IF Cardinality(Range(picks)) # Len(picks) THEN "DuplicatePick"
  ELSE IF \E i \in DOMAIN picks : picks[i] \notin Range(cfg.teams)
    THEN "InvalidTeam"
  ELSE IF \E i \in DOMAIN picks : picks[i] \in usedTeams(player)
    THEN "TeamReused"
  ELSE IF Len(picks) # getRequiredPicks(player, day) THEN "WrongPickCount"
  ELSE IF isBuyback /\ player.buybacks >= MaxBuybacks
    THEN "BuybackLimitReached"
  ELSE IF isBuyback /\ day \notin cfg.buybackDays
    THEN "BuybackNotAllowedToday"
  ELSE "ok"

\* faulty variant: the already-submitted check runs after the duplicate check
validatePicks_DuplicateFirst(cfg, player, day, picks, isBuyback) ==
  IF Cardinality(Range(picks)) # Len(picks) THEN "DuplicatePick"
  ELSE IF Has(player.picks, day) THEN "AlreadySubmitted"
  ELSE IF \E i \in DOMAIN picks : picks[i] \in usedTeams(player)
    THEN "TeamReused"
  ELSE IF \E i \in DOMAIN picks : picks[i] \notin Range(cfg.teams)
    THEN "InvalidTeam"
  ELSE IF Len(picks) # getRequiredPicks(player, day) THEN "WrongPickCount"
  ELSE IF isBuyback /\ player.buybacks >= MaxBuybacks
    THEN "BuybackLimitReached"
  ELSE IF isBuyback /\ day \notin cfg.buybackDays
    THEN "BuybackNotAllowedToday"
  ELSE "ok"

\* faulty variant: the buyback day is checked before the buyback limit
validatePicks_DayFirst(cfg, player, day, picks, isBuyback) ==
  IF Has(player.picks, day) THEN "AlreadySubmitted"
  ELSE IF Cardinality(Range(picks)) # Len(picks) THEN "DuplicatePick"
  ELSE IF \E i \in DOMAIN picks : picks[i] \in usedTeams(player)
    THEN "TeamReused"
  ELSE IF \E i \in DOMAIN picks : picks[i] \notin Range(cfg.teams)
    THEN "InvalidTeam"
  ELSE IF Len(picks) # getRequiredPicks(player, day) THEN "WrongPickCount"
  ELSE IF isBuyback /\ day \notin cfg.buybackDays
    THEN "BuybackNotAllowedToday"
  ELSE IF isBuyback /\ player.buybacks >= MaxBuybacks
    THEN "BuybackLimitReached"
  ELSE "ok"

\* the validation sequence, for a player that was found: the first check
\* that fails decides the response
validatePicks(cfg, player, day, picks, isBuyback) ==
  IF Has(player.picks, day) THEN "AlreadySubmitted"
  ELSE IF Cardinality(Range(picks)) # Len(picks) THEN "DuplicatePick"
  ELSE IF \E i \in DOMAIN picks : picks[i] \in usedTeams(player)
    THEN "TeamReused"
  ELSE IF \E i \in DOMAIN picks : picks[i] \notin Range(cfg.teams)
    THEN "InvalidTeam"
  ELSE IF Len(picks) # getRequiredPicks(player, day) THEN "WrongPickCount"
  ELSE IF isBuyback /\ player.buybacks >= MaxBuybacks
    THEN "BuybackLimitReached"
  ELSE IF isBuyback /\ day \notin cfg.buybackDays
    THEN "BuybackNotAllowedToday"
  ELSE "ok"

\* the response of the whole handler
picksResponse(cfg, ps, playerId, day, picks, isBuyback) ==
  IF cfg.siteLocked THEN "Locked"
  ELSE IF Len(picks) = 0 THEN "MissingFields"
  ELSE IF findIndex(ps, playerId) = 0 THEN "PlayerNotFound"
  ELSE validatePicks(cfg, ps[findIndex(ps, playerId)], day, picks, isBuyback)

\* faulty variant: the buy-in is not added to the spend
applyBuyback_NoCharge(player) ==
  [player EXCEPT !.status = "alive",
                 !.buybacks = @ + 1,
                 !.needsBuyback = FALSE]

\* faulty variant: the needsBuyback flag is not cleared
applyBuyback_KeepFlag(player) ==
  [player EXCEPT !.status = "alive",
                 !.buybacks = @ + 1,
                 !.totalSpent = @ + BuyIn]

\* the buyback transition
applyBuyback(player) ==
  [player EXCEPT !.status = "alive",
                 !.buybacks = @ + 1,
                 !.totalSpent = @ + BuyIn,
                 !.needsBuyback = FALSE]

\* player.picks[day] = picks; player.results[day] = 'pending'
savePicks(player, day, picks) ==
  [player EXCEPT !.picks = Put(@, day, picks),
                 !.results = Put(@, day, "pending")]

\* faulty variant: the updated record is stored in the first slot of the list
submitPicks_FirstSlot(ps, playerId, day, picks, isBuyback) ==
  LET idx == findIndex(ps, playerId)
      bought == IF isBuyback THEN applyBuyback(ps[idx]) ELSE ps[idx]
  IN  [ps EXCEPT ![1] = savePicks(bought, day, picks)]

\* the player list written by a submission that passed every check
submitPicks(ps, playerId, day, picks, isBuyback) ==
  LET idx == findIndex(ps, playerId)
      bought == IF isBuyback THEN applyBuyback(ps[idx]) ELSE ps[idx]
  IN  [ps EXCEPT ![idx] = savePicks(bought, day, picks)]

\* what `last` records of a request and its response (summary: the
\* summary array of a process-day response, empty for the other routes;
\* body: the fields of an admin config request sent to serve.mjs)
Req(op, playerId, day, picks, isBuyback, resp) ==
  [op |-> op, playerId |-> playerId, day |-> day, picks |-> picks,
   isBuyback |-> isBuyback, resp |-> resp, summary |-> << >>,
   body |-> EmptyObj]

Picks(playerId, day, picks, isBuyback) ==
  /\ remaining > 0
  /\ LET resp == picksResponse(config, players, playerId, day, picks, isBuyback)
     IN /\ players' = IF resp = "ok"
                         THEN submitPicks(players, playerId, day, picks, isBuyback)
                         ELSE players
        /\ last' = Req("picks", playerId, day, picks, isBuyback, resp)
  /\ remaining' = remaining - 1
  /\ UNCHANGED <<config, games, pending>>

----------------------------------------------------------------------------
(* Admin routes.  Each starts with isAdminAuthed(req) and answers 401      *)
(* before it reads or writes a store when the password is wrong; these     *)
(* are the requests that passed the check.                                 *)

AdminReq(op, day, resp) == Req(op, 0, day, << >>, FALSE, resp)

\* Object.assign(target, source)
assign(target, source) == source @@ target

\* POST /api/admin/config
AdminConfig(body) ==
  /\ remaining > 0
  /\ config' = assign(config, body)
  /\ last' = AdminReq("config", NULL, "ok")
  /\ remaining' = remaining - 1
  /\ UNCHANGED <<players, games, pending>>

\* Math.max over the ids, 0 for an empty list
maxId(ps) ==
  IF Len(ps) = 0 THEN 0
  ELSE CHOOSE m \in { ps[i].id : i \in DOMAIN ps } :
         \A i \in DOMAIN ps : ps[i].id <= m

\* body.f || dflt, for a numeric or string field
orDefault(body, f, dflt) ==
  IF Has(body, f) /\ body[f] # 0 THEN body[f] ELSE dflt

\* faulty variant: the new id is the length of the list plus one
newPlayer_CountId(ps, body) ==
  [id |-> Len(ps) + 1,
   name |-> "New Player",
   status |-> IF Has(body, "status") THEN body.status ELSE "alive",
   buybacks |-> orDefault(body, "buybacks", 0),
   needsBuyback |-> IF Has(body, "needsBuyback") THEN body.needsBuyback ELSE FALSE,
   totalSpent |-> orDefault(body, "totalSpent", BuyIn),
   picks |-> IF Has(body, "picks") THEN body.picks ELSE EmptyObj,
   results |-> IF Has(body, "results") THEN body.results ELSE EmptyObj]

newPlayer(ps, body) ==
  [id |-> maxId(ps) + 1,
   name |-> "New Player",
   status |-> IF Has(body, "status") THEN body.status ELSE "alive",
   buybacks |-> orDefault(body, "buybacks", 0),
   needsBuyback |-> IF Has(body, "needsBuyback") THEN body.needsBuyback ELSE FALSE,
   totalSpent |-> orDefault(body, "totalSpent", BuyIn),
   picks |-> IF Has(body, "picks") THEN body.picks ELSE EmptyObj,
   results |-> IF Has(body, "results") THEN body.results ELSE EmptyObj]

\* the player list written by POST /api/admin/player
adminPlayer(ps, body) ==
  IF Has(body, "id") /\ findIndex(ps, body.id) # 0
  THEN [ps EXCEPT ![findIndex(ps, body.id)] = assign(@, body)]
  ELSE Append(ps, newPlayer(ps, body))

AdminPlayer(body) ==
  /\ remaining > 0
  /\ maxId(adminPlayer(players, body)) <= MaxId
  /\ players' = adminPlayer(players, body)
  /\ last' = AdminReq("player", NULL, "ok")
  /\ remaining' = remaining - 1
  /\ UNCHANGED <<config, games, pending>>

\* players.filter(p => p.id !== id)
RECURSIVE filterOut(_, _)
filterOut(ps, id) ==
  IF ps = << >> THEN << >>
  ELSE IF Head(ps).id = id THEN filterOut(Tail(ps), id)
  ELSE << Head(ps) >> \o filterOut(Tail(ps), id)

\* DELETE /api/admin/player/:id
DeletePlayer(id) ==
  /\ remaining > 0
  /\ LET filtered == filterOut(players, id)
         resp == IF Len(filtered) = Len(players) THEN "PlayerNotFound"
                 ELSE "ok"
     IN /\ players' = IF resp = "ok" THEN filtered ELSE players
        /\ last' = Req("delete", id, NULL, << >>, FALSE, resp)
  /\ remaining' = remaining - 1
  /\ UNCHANGED <<config, games, pending>>

\* POST /api/admin/games
AdminGames(day, list) ==
  /\ remaining > 0
  /\ games' = Put(games, day, list)
  /\ last' = AdminReq("games", day, "ok")
  /\ remaining' = remaining - 1
  /\ UNCHANGED <<config, players, pending>>

\* dayGames.find(g => g.id === gameId), as an index; 0 when there is none
findGame(dayGames, gameId) ==
  IF \E i \in DOMAIN dayGames : dayGames[i].id = gameId
  THEN CHOOSE i \in DOMAIN dayGames :
         dayGames[i].id = gameId
         /\ \A j \in DOMAIN dayGames : dayGames[j].id = gameId => i <= j
  ELSE 0

\* if (isFinal !== undefined) game.final = isFinal; same for winner
updateGame(game, body) ==
  [game EXCEPT !.final = IF Has(body, "final") THEN body.final ELSE @,
               !.winner = IF Has(body, "winner") THEN body.winner ELSE @]

\* POST /api/admin/game-result
GameResult(day, gameId, body) ==
  /\ remaining > 0
  /\ LET resp == IF ~Has(games, day) THEN "DayNotFound"
                 ELSE IF findGame(games[day], gameId) = 0 THEN "GameNotFound"
                 ELSE "ok"
     IN /\ games' = IF resp = "ok"
                       THEN [games EXCEPT ![day][findGame(games[day], gameId)] =
                                            updateGame(@, body)]
                       ELSE games
        /\ last' = Req("game-result", gameId, day, << >>, FALSE, resp)
  /\ remaining' = remaining - 1
  /\ UNCHANGED <<config, players, pending>>

----------------------------------------------------------------------------
(* POST /api/admin/process-day                                             *)

\* allGames[day] || []
dayGamesOf(gs, day) == IF Has(gs, day) THEN gs[day] ELSE << >>

\* faulty variant: the final flag of the game is not looked at
dayWinners_AnyWinner(gs, day) ==
  LET dayGames == dayGamesOf(gs, day)
  IN  { dayGames[i].winner :
          i \in { k \in DOMAIN dayGames : dayGames[k].winner # NULL } }

\* the winners of the day's games that are final and have a winner
dayWinners(gs, day) ==
  LET dayGames == dayGamesOf(gs, day)
  IN  { dayGames[i].winner :
          i \in { k \in DOMAIN dayGames :
                    dayGames[k].final /\ dayGames[k].winner # NULL } }

\* faulty variant: the status of the player is not looked at
isEvaluated_AnyStatus(player, day) ==
  /\ Has(player.picks, day)
  /\ Len(player.picks[day]) # 0

\* a player is evaluated when alive with a non-empty pick list for the day
isEvaluated(player, day) ==
  /\ player.status = "alive"
  /\ Has(player.picks, day)
  /\ Len(player.picks[day]) # 0

\* faulty variant: the picks must be all of the day's winners
allWon_Exact(playerPicks, winners) ==
  Range(playerPicks) = winners

\* playerPicks.every(team => dayWinners.has(team))
allWon(playerPicks, winners) ==
  \A i \in DOMAIN playerPicks : playerPicks[i] \in winners

\* faulty variant: the bubble branch forgets to set the status
eliminate_KeepStatus(cfg, player, day) ==
  IF day \in cfg.buybackDays /\ player.buybacks < MaxBuybacks
  THEN [player EXCEPT !.results = Put(@, day, "loss"),
                      !.needsBuyback = TRUE]
  ELSE [player EXCEPT !.results = Put(@, day, "loss"),
                      !.status = "eliminated",
                      !.needsBuyback = FALSE]

\* faulty variant: the buyback count is not looked at
eliminate_NoLimit(cfg, player, day) ==
  IF day \in cfg.buybackDays
  THEN [player EXCEPT !.results = Put(@, day, "loss"),
                      !.needsBuyback = TRUE,
                      !.status = "eliminated"]
  ELSE [player EXCEPT !.results = Put(@, day, "loss"),
                      !.status = "eliminated",
                      !.needsBuyback = FALSE]

\* the loss branch
eliminate(cfg, player, day) ==
  IF day \in cfg.buybackDays /\ player.buybacks < MaxBuybacks
  THEN [player EXCEPT !.results = Put(@, day, "loss"),
                      !.needsBuyback = TRUE,
                      !.status = "eliminated"]
  ELSE [player EXCEPT !.results = Put(@, day, "loss"),
                      !.status = "eliminated",
                      !.needsBuyback = FALSE]

\* one iteration of the player loop
evaluatePlayer(cfg, player, day, winners) ==
  IF ~isEvaluated(player, day) THEN player
  ELSE IF allWon(player.picks[day], winners)
    THEN [player EXCEPT !.results = Put(@, day, "win")]
  ELSE eliminate(cfg, player, day)

\* faulty variant: only the current day advances the pointer
advanceDay_OnlyCurrent(currentDay, day) ==
  LET dayIdx == indexOf(day)
  IN  IF dayIdx >= 1 /\ dayIdx < Len(DAY_ORDER) /\ day = currentDay
      THEN DAY_ORDER[dayIdx + 1]
      ELSE currentDay

\* faulty variant: the pointer moves to the successor of the current day
advanceDay_FromCurrent(currentDay, day) ==
  LET curIdx == indexOf(currentDay)
  IN  IF indexOf(day) >= 1 /\ curIdx >= 1 /\ curIdx < Len(DAY_ORDER)
      THEN DAY_ORDER[curIdx + 1]
      ELSE currentDay

\* the value of config.currentDay after the day was processed
advanceDay(currentDay, day) ==
  LET dayIdx == indexOf(day)
  IN  IF dayIdx >= 1 /\ dayIdx < Len(DAY_ORDER)
      THEN DAY_ORDER[dayIdx + 1]
      ELSE currentDay

\* the stores written by a process-day request that passed the checks
processDay(cfg, ps, gs, day) ==
  [players |-> [j \in DOMAIN ps |->
                  evaluatePlayer(cfg, ps[j], day, dayWinners(gs, day))],
   config |-> [cfg EXCEPT !.currentDay = advanceDay(@, day)]]

\* the summary of the response: id, name, status and p.results[day] || null
\* of every player, read after the loop
summaryOf(ps, day) ==
  [j \in DOMAIN ps |->
     [id |-> ps[j].id, name |-> ps[j].name, status |-> ps[j].status,
      result |-> IF Has(ps[j].results, day) THEN ps[j].results[day] ELSE NULL]]

\* the handler: what it writes and what it answers
handleProcessDay(day) ==
  /\ LET resp == IF day = NULL THEN "MissingFields" ELSE "ok"
         out == processDay(config, players, games, day)
     IN /\ players' = IF resp = "ok" THEN out.players ELSE players
        /\ config' = IF resp = "ok" THEN out.config ELSE config
        /\ last' = IF resp = "ok"
                   THEN [AdminReq("process-day", day, resp)
                           EXCEPT !.summary = summaryOf(out.players, day)]
                   ELSE AdminReq("process-day", day, resp)
  /\ UNCHANGED <<games, pending>>

ProcessDay(day) ==
  /\ remaining > 0
  /\ handleProcessDay(day)
  /\ remaining' = remaining - 1

----------------------------------------------------------------------------
(* The system from its construction: empty player and game files, every   *)
(* route open.                                                             *)

Init ==
  /\ config \in { [teams |-> Roster, buybackDays |-> s, currentDay |-> d,
                   siteLocked |-> FALSE] :
                    s \in BuybackDaySets, d \in { NULL, DAY_ORDER[1] } }
  /\ players = << >>
  /\ games = EmptyObj
  /\ last = Req("none", 0, NULL, << >>, FALSE, "none")
  /\ pending = NoPending
  /\ remaining = MaxOps

SomePicks ==
  \E playerId \in 1..MaxId, day \in SubmitDays, picks \in PickLists,
     isBuyback \in BOOLEAN : Picks(playerId, day, picks, isBuyback)

SomeAdminConfig == \E body \in ConfigBodies : AdminConfig(body)

SomeAdminPlayer == \E body \in PlayerBodies : AdminPlayer(body)

SomeDeletePlayer == \E id \in 1..MaxId : DeletePlayer(id)

SomeAdminGames == \E day \in SubmitDays, list \in GameLists : AdminGames(day, list)

SomeGameResult ==
  \E day \in SubmitDays, gameId \in 1..2, body \in GameResultBodies :
     GameResult(day, gameId, body)

SomeProcessDay == \E day \in ProcessDays : ProcessDay(day)

Next ==
  \/ SomePicks
  \/ SomeAdminConfig
  \/ SomeAdminPlayer
  \/ SomeDeletePlayer
  \/ SomeAdminGames
  \/ SomeGameResult
  \/ SomeProcessDay

Spec == Init /\ [][Next]_vars

----------------------------------------------------------------------------
(* Seeded stores: the player file as left by one or two admin create       *)
(* requests (the create route copies status, buybacks, needsBuyback,       *)
(* totalSpent, picks and results from its body), the config file as left   *)
(* by admin config requests.                                               *)

SeedPicks == { EmptyObj, [thursday_r1 |-> <<"T1", "T2">>] }

SeedBodies ==
  { [status |-> st, buybacks |-> b, needsBuyback |-> nb,
     totalSpent |-> BuyIn * (1 + b), picks |-> pk,
     results |-> [d \in DOMAIN pk |-> "pending"]] :
      st \in {"alive", "eliminated"}, b \in {0, 2, MaxBuybacks},
      nb \in BOOLEAN, pk \in SeedPicks }

\* a first player that already used two teams
Filler == newPlayer(<< >>, [picks |-> [friday_r1 |-> <<"T3", "T4">>],
                            results |-> [friday_r1 |-> "pending"]])

SeedPlayers ==
  { adminPlayer(pre, b) : pre \in { << >>, << Filler >> }, b \in SeedBodies }

SeedConfigs ==
  { [teams |-> Roster, buybackDays |-> s, currentDay |-> DAY_ORDER[1],
     siteLocked |-> l] : s \in BuybackDaySets, l \in BOOLEAN }

(* Pick submissions against a seeded store.                                *)
InitPicks ==
  /\ config \in SeedConfigs
  /\ players \in SeedPlayers
  /\ games = EmptyObj
  /\ last = Req("none", 0, NULL, << >>, FALSE, "none")
  /\ pending = NoPending
  /\ remaining = MaxRequests

NextPicks == SomePicks

SpecPicks == InitPicks /\ [][NextPicks]_vars

(* Day processing against a seeded store: a player (alone or after the     *)
(* filler) with or without a pick list for the second or third day, and    *)
(* the game file with one of these days uploaded.                          *)

DaySeedPicks ==
  { EmptyObj,
    [friday_r1 |-> <<"T1", "T3">>],
    [saturday_r2 |-> <<"T1">>],
    [saturday_r2 |-> <<"T2">>],
    [friday_r1 |-> <<"T1", "T2">>, saturday_r2 |-> << >>] }

DaySeedBodies ==
  { [status |-> st, buybacks |-> b, needsBuyback |-> nb,
     totalSpent |-> BuyIn * (1 + b), picks |-> pk,
     results |-> [d \in DOMAIN pk |-> "pending"]] :
      st \in {"alive", "eliminated"}, b \in {0, 1, MaxBuybacks},
      nb \in BOOLEAN, pk \in DaySeedPicks }

DaySeedPlayers ==
  { adminPlayer(pre, b) : pre \in { << >>, << Filler >> }, b \in DaySeedBodies }

\* the game file after an upload, possibly followed by a game-result
\* request that recorded a winner without marking the game final
DaySeedGames ==
  { EmptyObj } \cup
  { Put(EmptyObj, d, l) :
      d \in { "friday_r1", "saturday_r2" },
      l \in GameLists \cup { << Game(1, "T1", "T2", FALSE, "T1") >> } }

DaySeedConfigs ==
  { [teams |-> Roster, buybackDays |-> s, currentDay |-> d,
     siteLocked |-> FALSE] :
      s \in BuybackDaySets,
      d \in { NULL, DAY_ORDER[1], DAY_ORDER[3], DAY_ORDER[10] } }

InitDay ==
  /\ config \in DaySeedConfigs
  /\ players \in DaySeedPlayers
  /\ games \in DaySeedGames
  /\ last = Req("none", 0, NULL, << >>, FALSE, "none")
  /\ pending = NoPending
  /\ remaining = MaxRequests

NextDay == SomeProcessDay

SpecDay == InitDay /\ [][NextDay]_vars

\* process-day requests without end: the admin keeps sending them and the
\* server answers every request it has received
ProcessDayForever ==
  \E day \in ProcessDays : handleProcessDay(day) /\ UNCHANGED remaining

SpecDayFair == InitDay /\ [][ProcessDayForever]_vars /\ WF_vars(ProcessDayForever)

----------------------------------------------------------------------------
(* The contest as played: one or two players created with the default     *)
(* values, then pick submissions, game uploads, game results and day       *)
(* processing; no admin edit of a player or of the config.  A rejected     *)
(* submission writes no store, so only the accepted ones are steps here.   *)

FreshPlayers ==
  { adminPlayer(<< >>, EmptyObj),
    adminPlayer(adminPlayer(<< >>, EmptyObj), EmptyObj) }

InitContest ==
  /\ config \in { c \in SeedConfigs : ~c.siteLocked }
  /\ players \in FreshPlayers
  /\ games = EmptyObj
  /\ last = Req("none", 0, NULL, << >>, FALSE, "none")
  /\ pending = NoPending
  /\ remaining = MaxOps

AcceptedPicks ==
  /\ remaining > 0
  /\ \E playerId \in 1..MaxId, day \in SubmitDays, picks \in PickLists,
        isBuyback \in BOOLEAN :
          /\ picksResponse(config, players, playerId, day, picks, isBuyback) = "ok"
          /\ Picks(playerId, day, picks, isBuyback)

NextContest ==
  \/ AcceptedPicks
  \/ SomeAdminGames
  \/ SomeGameResult
  \/ SomeProcessDay

SpecContest == InitContest /\ [][NextContest]_vars

(* The contest as played by one player who was created alive, without the *)
(* needsBuyback flag, with some buybacks already used.                     *)

VeteranPlayers ==
  { adminPlayer(<< >>, [buybacks |-> b, totalSpent |-> BuyIn * (1 + b)]) :
      b \in { 0, 2, MaxBuybacks } }

InitVeteran ==
  /\ config \in { c \in SeedConfigs : ~c.siteLocked }
  /\ players \in VeteranPlayers
  /\ games = EmptyObj
  /\ last = Req("none", 0, NULL, << >>, FALSE, "none")
  /\ remaining = MaxOps
  /\ pending = NoPending

SpecVeteran == InitVeteran /\ [][NextContest]_vars

----------------------------------------------------------------------------
(* The roster editor: admin player create, update and delete requests on   *)
(* a player file that starts empty.                                        *)

InitAdmin ==
  /\ config \in { c \in SeedConfigs : ~c.siteLocked }
  /\ players = << >>
  /\ games = EmptyObj
  /\ last = Req("none", 0, NULL, << >>, FALSE, "none")
  /\ remaining = MaxAdminOps
  /\ pending = NoPending

NextAdmin == SomeAdminPlayer \/ SomeDeletePlayer

SpecAdmin == InitAdmin /\ [][NextAdmin]_vars

----------------------------------------------------------------------------
(* serve.mjs: the same routes in a raw http server.  A handler runs until  *)
(* `await parseBody(req)`, is suspended while the body arrives, and runs   *)
(* to its response when resumed; other handlers run in between.  The pick  *)
(* handler reads the config file before the await and the player file      *)
(* after it; the process-day handler reads all three files after it.       *)
(* File reads and writes are synchronous (readFileSync, writeFileSync).    *)

Stores(cfg, ps, gs) == [config |-> cfg, players |-> ps, games |-> gs]

\* the requests sent to serve.mjs
ServeRequests ==
  { Req("picks", id, "saturday_r2", pk, b, "none") :
      id \in {1, 2}, pk \in { <<"T1">>, <<"T2">> }, b \in BOOLEAN }
  \cup { AdminReq("process-day", d, "none") : d \in { "friday_r1", "saturday_r2" } }

\* an atomic handler: the stores it writes and its response (app.js, and
\* serve.mjs when nothing runs during the await)
atomicHandler(st, req) ==
  IF req.op = "picks"
  THEN LET resp == picksResponse(st.config, st.players, req.playerId, req.day,
                                 req.picks, req.isBuyback)
       IN  [stores |-> IF resp = "ok"
                       THEN [st EXCEPT !.players =
                               submitPicks(@, req.playerId, req.day, req.picks,
                                           req.isBuyback)]
                       ELSE st,
            resp |-> resp]
  ELSE IF req.op = "config"
  THEN [stores |-> [st EXCEPT !.config = assign(@, req.body)], resp |-> "ok"]
  ELSE LET out == processDay(st.config, st.players, st.games, req.day)
       IN  [stores |-> [st EXCEPT !.players = out.players, !.config = out.config],
            resp |-> "ok"]

\* faulty variant: the player file is read before the await, like the config
resumeStores_ReadEarly(req, snap, cur) ==
  IF req.op = "picks" THEN snap ELSE cur

\* the files as a resumed handler sees them: the pick handler keeps the
\* config it read before the await (snap) and reads the players now (cur)
resumeStores(req, snap, cur) ==
  IF req.op = "picks" THEN [cur EXCEPT !.config = snap.config] ELSE cur

\* a request arrives: the handler runs up to the await
ServeReceive(req) ==
  /\ remaining > 0
  /\ LET locked == req.op = "picks" /\ config.siteLocked
         entry == [req |-> [req EXCEPT !.resp = IF locked THEN "Locked" ELSE "none"],
                   pc |-> IF locked THEN "done" ELSE "parsing",
                   snap |-> Stores(config, players, games)]
     IN /\ pending' = [origin |-> IF pending.reqs = << >>
                                  THEN Stores(config, players, games)
                                  ELSE pending.origin,
                       reqs |-> Append(pending.reqs, entry)]
        /\ last' = IF locked THEN entry.req ELSE last
  /\ remaining' = remaining - 1
  /\ UNCHANGED <<config, players, games>>

\* the body has arrived: the handler runs from the await to its response
ServeResume(k) ==
  /\ pending.reqs[k].pc = "parsing"
  /\ LET entry == pending.reqs[k]
         seen == resumeStores(entry.req, entry.snap, Stores(config, players, games))
         out == atomicHandler(seen, entry.req)
         done == [entry.req EXCEPT !.resp = out.resp]
     IN /\ players' = IF entry.req.op = "picks" /\ out.resp # "ok"
                         THEN players ELSE out.stores.players
        /\ config' = IF entry.req.op = "picks" THEN config ELSE out.stores.config
        /\ pending' = [pending EXCEPT !.reqs[k] = [@ EXCEPT !.req = done,
                                                            !.pc = "done"]]
        /\ last' = done
  /\ UNCHANGED <<games, remaining>>

ServePlayers ==
  { adminPlayer(adminPlayer(<< >>, EmptyObj), b) :
      b \in { EmptyObj,
              [status |-> "eliminated", needsBuyback |-> TRUE],
              [picks |-> [saturday_r2 |-> <<"T2">>],
               results |-> [saturday_r2 |-> "pending"]] } }

ServeGames ==
  { EmptyObj,
    Put(EmptyObj, "saturday_r2", << Game(1, "T1", "T2", TRUE, "T1") >>) }

InitServe ==
  /\ config \in { c \in SeedConfigs : ~c.siteLocked }
  /\ players \in ServePlayers
  /\ games \in ServeGames
  /\ last = Req("none", 0, NULL, << >>, FALSE, "none")
  /\ remaining = MaxInflight
  /\ pending = NoPending

SomeServeReceive == \E req \in ServeRequests : ServeReceive(req)

SomeServeResume == \E k \in DOMAIN pending.reqs : ServeResume(k)

NextServe == SomeServeReceive \/ SomeServeResume

SpecServe == InitServe /\ [][NextServe]_vars

(* Pick submissions that overlap with admin config requests that set or   *)
(* clear the site lock.  The config handler reads and writes the config    *)
(* file after its await.                                                   *)

ServePickRequests == { req \in ServeRequests : req.op = "picks" }

ServeLockRequests ==
  { [AdminReq("config", NULL, "none") EXCEPT !.body = [siteLocked |-> b]] :
      b \in BOOLEAN }

SomeServeLockReceive ==
  \E req \in ServePickRequests \cup ServeLockRequests : ServeReceive(req)

NextServeLock == SomeServeLockReceive \/ SomeServeResume

SpecServeLock == InitServe /\ [][NextServeLock]_vars

----------------------------------------------------------------------------
(* Properties of the pick submission validator.  The rules are restated    *)
(* here one by one, independently of validatePicks.                        *)

\* the player a request names (when there is one)
PlayerOf(ps, id) == ps[findIndex(ps, id)]

\* the step about to be recorded in last' is a pick submission that gets
\* past the site lock, the required-field check and the player lookup
PickStep ==
  /\ last'.op = "picks"
  /\ ~config.siteLocked
  /\ Len(last'.picks) > 0
  /\ \E i \in DOMAIN players : players[i].id = last'.playerId

\* the reference table of required pick counts over the ten days
PickTable ==
  [plain   |-> << 2, 2, 1, 1, 1, 1, 1, 1, 1, 1 >>,
   buyback |-> << 3, 4, 3, 3, 3, 3, 3, 3, 3, 3 >>]

TableCount(needsBuyback, day) ==
  LET i == CHOOSE k \in 1..10 : DAY_ORDER[k] = day
  IN  IF needsBuyback THEN PickTable.buyback[i] ELSE PickTable.plain[i]

RuleOrder ==
  << "AlreadySubmitted", "DuplicatePick", "TeamReused", "InvalidTeam",
     "WrongPickCount", "BuybackLimitReached", "BuybackNotAllowedToday" >>

RuleViolated(rule, cfg, player, day, picks, isBuyback) ==
  CASE rule = "AlreadySubmitted" -> day \in DOMAIN player.picks
    [] rule = "DuplicatePick" ->
         \E i, j \in DOMAIN picks : i # j /\ picks[i] = picks[j]
    [] rule = "TeamReused" ->
         \E d \in DOMAIN player.picks :
            \E i \in DOMAIN picks, k \in DOMAIN player.picks[d] :
               picks[i] = player.picks[d][k]
    [] rule = "InvalidTeam" ->
         \E i \in DOMAIN picks :
            \A k \in DOMAIN cfg.teams : cfg.teams[k] # picks[i]
    [] rule = "WrongPickCount" ->
         Len(picks) # TableCount(player.needsBuyback, day)
    [] rule = "BuybackLimitReached" -> isBuyback /\ player.buybacks >= 3
    [] rule = "BuybackNotAllowedToday" ->
         isBuyback /\ day \notin cfg.buybackDays

ViolatedRules(cfg, player, req) ==
  { k \in DOMAIN RuleOrder :
      RuleViolated(RuleOrder[k], cfg, player, req.day, req.picks, req.isBuyback) }

\* the error of the earliest violated rule, "ok" when none is violated
FirstViolated(cfg, player, req) ==
  LET v == ViolatedRules(cfg, player, req)
  IN  IF v = {} THEN "ok"
      ELSE RuleOrder[CHOOSE k \in v : \A m \in v : k <= m]

\* C4: a submission that reaches the validation sequence is answered with
\* the error of the earliest violated rule in the order AlreadySubmitted,
\* DuplicatePick, TeamReused, InvalidTeam, WrongPickCount,
\* BuybackLimitReached, BuybackNotAllowedToday; it succeeds (the list is
\* recorded) exactly when no rule is violated, and a rejected submission
\* writes nothing.
C4_ValidationOrder ==
  [][ PickStep =>
        LET player == PlayerOf(players, last'.playerId)
            after == PlayerOf(players', last'.playerId)
        IN  /\ last'.resp = FirstViolated(config, player, last')
            /\ (last'.resp = "ok") <=> (ViolatedRules(config, player, last') = {})
            /\ last'.resp = "ok" =>
                  /\ Has(after.picks, last'.day)
                  /\ after.picks[last'.day] = last'.picks
            /\ last'.resp # "ok" => players' = players ]_vars

\* a rejected submission that violates at least two rules, none of them
\* the first of the order (a rejected submission leaves the stores as they
\* were, so the rules are evaluated on the state the handler saw)
C4_Witness ==
  /\ last.op = "picks"
  /\ last.resp \in { "TeamReused", "InvalidTeam", "WrongPickCount",
                      "BuybackLimitReached" }
  /\ Cardinality(ViolatedRules(config, PlayerOf(players, last.playerId), last)) >= 2

\* C5: a submission for a day the player already has a pick list for
\* leaves every store unchanged, and when it reaches the validation
\* sequence its error is AlreadySubmitted, whatever the candidate list and
\* the buyback flag are.
C5_AlreadySubmitted ==
  [][ ( /\ last'.op = "picks"
        /\ \E i \in DOMAIN players :
              /\ players[i].id = last'.playerId
              /\ last'.day \in DOMAIN players[i].picks )
        => /\ players' = players
           /\ config' = config
           /\ games' = games
           /\ last'.resp # "ok"
           /\ PickStep => last'.resp = "AlreadySubmitted" ]_vars

\* a resubmission with a fresh, valid list of the right length was rejected
C5_Witness ==
  /\ last.op = "picks"
  /\ last.resp = "AlreadySubmitted"
  /\ ViolatedRules(config, PlayerOf(players, last.playerId), last) = {1}
  /\ PlayerOf(players, last.playerId).picks[last.day] # last.picks

\* C6: getRequiredPicks agrees with the reference table on each of the
\* ten days, for every player record in the store (needsBuyback false:
\* 2, 2, then 1; needsBuyback true: 3, 4, then 3).
C6_RequiredPickCount ==
  \A i \in DOMAIN players : \A d \in DOMAIN DAY_ORDER :
     getRequiredPicks(players[i], DAY_ORDER[d])
       = TableCount(players[i].needsBuyback, DAY_ORDER[d])

\* a player that needs a buyback had a four-team list accepted for the
\* second day
C6_Witness ==
  /\ last.op = "picks"
  /\ last.resp = "ok"
  /\ last.day = DAY_ORDER[2]
  /\ Len(last.picks) = 4
  /\ PlayerOf(players, last.playerId).needsBuyback

\* C7: a buyback submission by a player with three buybacks that passes
\* the first five rules is answered BuybackLimitReached, on eligible and
\* on non-eligible days alike, and the player list is unchanged.
C7_BuybackLimit ==
  [][ ( /\ PickStep
        /\ last'.isBuyback
        /\ PlayerOf(players, last'.playerId).buybacks = 3
        /\ ViolatedRules(config, PlayerOf(players, last'.playerId), last')
              \cap (1..5) = {} )
        => /\ last'.resp = "BuybackLimitReached"
           /\ players' = players ]_vars

\* the limit answer on a day that is not buyback-eligible
C7_Witness ==
  /\ last.op = "picks"
  /\ last.resp = "BuybackLimitReached"
  /\ last.day \notin config.buybackDays
  /\ PlayerOf(players, last.playerId).buybacks = 3

\* the limit answer on a buyback-eligible day
C7_WitnessEligible ==
  /\ last.op = "picks"
  /\ last.resp = "BuybackLimitReached"
  /\ last.day \in config.buybackDays

----------------------------------------------------------------------------
(* Invariants of the player records.                                       *)

\* C1: every player's buyback count is between 0 and 3, after any
\* sequence of pick submissions, day processing and admin requests.
C1_BuybackRange ==
  \A i \in DOMAIN players :
     players[i].buybacks >= 0 /\ players[i].buybacks <= 3

\* the teams of a player's pick lists, one entry per position
PickSlots(player) ==
  UNION { { <<d, k>> : k \in DOMAIN player.picks[d] } :
            d \in DOMAIN player.picks }

\* C2: no team occurs twice in the union of a player's per-day pick
\* lists, neither within one day's list nor in the lists of two days.
C2_NoTeamTwice ==
  \A i \in DOMAIN players :
     \A a, b \in PickSlots(players[i]) :
        a # b => players[i].picks[a[1]][a[2]] # players[i].picks[b[1]][b[2]]

\* C3: a player goes from eliminated to alive only in a successful pick
\* submission of that player marked as a buyback, made while the player's
\* needsBuyback flag is set, for a buyback-eligible day.
C3_OnlyBuybackRevives ==
  [][ \A i \in DOMAIN players : \A j \in DOMAIN players' :
        ( /\ players[i].id = players'[j].id
          /\ players[i].status = "eliminated"
          /\ players'[j].status = "alive" )
        => /\ last'.op = "picks"
           /\ last'.resp = "ok"
           /\ last'.isBuyback
           /\ last'.playerId = players[i].id
           /\ players[i].needsBuyback
           /\ last'.day \in config.buybackDays ]_vars

----------------------------------------------------------------------------
(* Properties of day processing.                                           *)

\* the step about to be recorded in last' processes a day
ProcessStep == last'.op = "process-day" /\ last'.resp = "ok"

\* the winners set of a day, restated: the teams recorded as winner of a
\* game of that day that is marked final
WinnersOf(gs, day) ==
  { t \in Range(Roster) \cup { BadTeam } :
      /\ day \in DOMAIN gs
      /\ \E k \in DOMAIN gs[day] : gs[day][k].final /\ gs[day][k].winner = t }

\* alive, with a non-empty pick list for the day
Picked(player, day) ==
  /\ player.status = "alive"
  /\ day \in DOMAIN player.picks
  /\ player.picks[day] # << >>

\* C8: when a day is processed, an alive player whose list for the day
\* holds a team outside the winners set gets result loss and status
\* eliminated, and needsBuyback becomes true exactly when the day is
\* buyback-eligible and the buyback count is below 3.
C8_LossEliminates ==
  [][ ProcessStep =>
        \A i \in DOMAIN players :
           ( /\ Picked(players[i], last'.day)
             /\ \E k \in DOMAIN players[i].picks[last'.day] :
                   players[i].picks[last'.day][k] \notin WinnersOf(games, last'.day) )
           => /\ players'[i].results[last'.day] = "loss"
              /\ players'[i].status = "eliminated"
              /\ players'[i].needsBuyback
                   = ( last'.day \in config.buybackDays /\ players[i].buybacks < 3 )
              /\ players'[i].buybacks = players[i].buybacks ]_vars

\* a loss on a buyback-eligible day with three buybacks used: terminal
C8_Witness ==
  /\ last.op = "process-day"
  /\ last.day \in config.buybackDays
  /\ \E i \in DOMAIN players :
        /\ Has(players[i].results, last.day)
        /\ players[i].results[last.day] = "loss"
        /\ players[i].buybacks = 3
        /\ players[i].status = "eliminated"
        /\ ~players[i].needsBuyback

\* a loss on a buyback-eligible day with one buyback used: on the bubble
C8_WitnessBubble ==
  /\ last.op = "process-day"
  /\ last.day \in config.buybackDays
  /\ \E i \in DOMAIN players :
        /\ Has(players[i].results, last.day)
        /\ players[i].results[last.day] = "loss"
        /\ players[i].buybacks = 1
        /\ players[i].needsBuyback

\* C9: when a day is processed, an alive player all of whose picks for
\* the day are winners of final games of the day gets result win, and
\* status, buyback count, needsBuyback, spend and picks stay as they were.
C9_WinKeepsAlive ==
  [][ ProcessStep =>
        \A i \in DOMAIN players :
           ( /\ Picked(players[i], last'.day)
             /\ \A k \in DOMAIN players[i].picks[last'.day] :
                   players[i].picks[last'.day][k] \in WinnersOf(games, last'.day) )
           => /\ players'[i].results[last'.day] = "win"
              /\ players'[i].status = "alive"
              /\ players'[i].buybacks = players[i].buybacks
              /\ players'[i].needsBuyback = players[i].needsBuyback
              /\ players'[i].totalSpent = players[i].totalSpent
              /\ players'[i].picks = players[i].picks ]_vars

\* a win with a single pick on a day that has two winners
C9_Witness ==
  /\ last.op = "process-day"
  /\ Cardinality(WinnersOf(games, last.day)) = 2
  /\ \E i \in DOMAIN players :
        /\ Has(players[i].results, last.day)
        /\ players[i].results[last.day] = "win"
        /\ players[i].status = "alive"
        /\ Len(players[i].picks[last.day]) = 1

\* C10: processing the last day of DAY_ORDER leaves currentDay as it
\* was; processing an earlier day sets it to that day's successor,
\* whatever it was before.
C10_AdvanceCurrentDay ==
  [][ ProcessStep =>
        \A k \in DOMAIN DAY_ORDER :
           last'.day = DAY_ORDER[k] =>
             IF k = Len(DAY_ORDER)
             THEN config'.currentDay = config.currentDay
             ELSE config'.currentDay = DAY_ORDER[k + 1] ]_vars

\* the last day was processed and the pointer is still on the first day
C10_Witness ==
  /\ last.op = "process-day"
  /\ last.resp = "ok"
  /\ last.day = DAY_ORDER[10]
  /\ config.currentDay = DAY_ORDER[1]

\* the second day was processed and the pointer is on the third day
C10_WitnessAdvance ==
  /\ last.op = "process-day"
  /\ last.resp = "ok"
  /\ last.day = DAY_ORDER[2]
  /\ config.currentDay = DAY_ORDER[3]

\* C11: when a day is processed, every player who is not alive at the time
\* of the call, or who has no pick list or an empty one for the day, keeps
\* the whole record (status, buybacks, needsBuyback, totalSpent, picks,
\* results), and the player list keeps its length and order.
C11_SkippedUnchanged ==
  [][ ProcessStep =>
        /\ Len(players') = Len(players)
        /\ \A i \in DOMAIN players :
              ( \/ players[i].status # "alive"
                \/ last'.day \notin DOMAIN players[i].picks
                \/ players[i].picks[last'.day] = << >> )
              => players'[i] = players[i] ]_vars

\* a day was processed for which an eliminated player holds a pick list
\* whose result is still pending
C11_Witness ==
  /\ last.op = "process-day"
  /\ last.resp = "ok"
  /\ \E i \in DOMAIN players :
        /\ players[i].status = "eliminated"
        /\ Has(players[i].picks, last.day)
        /\ players[i].picks[last.day] # << >>
        /\ players[i].results[last.day] = "pending"

\* a day was processed for which an alive player holds an empty pick list
C11_WitnessEmptyList ==
  /\ last.op = "process-day"
  /\ last.resp = "ok"
  /\ \E i \in DOMAIN players :
        /\ players[i].status = "alive"
        /\ Has(players[i].picks, last.day)
        /\ players[i].picks[last.day] = << >>

\* C12: the summary of a process-day response has one entry per player
\* with the id, name and status the player has after processing; the
\* result field is the day's win or loss for every player that was
\* evaluated and none (null) for every player that was skipped.
C12_Summary ==
  [][ ProcessStep =>
        /\ Len(last'.summary) = Len(players')
        /\ \A i \in DOMAIN players :
              /\ last'.summary[i].id = players'[i].id
              /\ last'.summary[i].name = players'[i].name
              /\ last'.summary[i].status = players'[i].status
              /\ Picked(players[i], last'.day)
                    => /\ last'.summary[i].result \in { "win", "loss" }
                       /\ last'.summary[i].result = players'[i].results[last'.day]
              /\ ~Picked(players[i], last'.day)
                    => last'.summary[i].result = NULL ]_vars

\* the stores after the day was processed once, and twice in a row
ProcessedOnce(day) == processDay(config, players, games, day)

ProcessedTwice(day) ==
  processDay(ProcessedOnce(day).config, ProcessedOnce(day).players, games, day)

\* some day, processed twice in a row from the current state, leaves the
\* player list or the config different from processing it once
NotIdempotentHere ==
  \E day \in ProcessDays \ { NULL } :
     \/ ProcessedTwice(day).players # ProcessedOnce(day).players
     \/ ProcessedTwice(day).config # ProcessedOnce(day).config

\* C13 (as stated): a state is reached in which processing some day twice
\* in a row gives player or config state different from processing it once.
C13_NotIdempotent == <>NotIdempotentHere

\* C13 (amended): in every reachable state and for every day argument,
\* processing the day twice in a row gives the same player list and the
\* same config as processing it once.
C13_Idempotent ==
  \A day \in ProcessDays \ { NULL } :
     /\ ProcessedTwice(day).players = ProcessedOnce(day).players
     /\ ProcessedTwice(day).config = ProcessedOnce(day).config

\* a buyback-eligible day was just processed and eliminated a player with
\* the flag set while another result of that day is a win: the state a
\* second run of the same day starts from
C13_Witness ==
  /\ last.op = "process-day"
  /\ last.resp = "ok"
  /\ last.day \in config.buybackDays
  /\ config.currentDay = DAY_ORDER[indexOf(last.day) + 1]
  /\ \E i \in DOMAIN players :
        /\ Has(players[i].results, last.day)
        /\ players[i].results[last.day] = "loss"
        /\ players[i].status = "eliminated"
        /\ players[i].needsBuyback
  /\ \E i \in DOMAIN players :
        /\ Has(players[i].results, last.day)
        /\ players[i].results[last.day] = "win"

\* C15: a pick submission for a player, accepted or rejected, leaves the
\* record of every other player, the length and order of the player list,
\* the game list and the config (currentDay included) unchanged.
C15_PickFrame ==
  [][ last'.op = "picks" =>
        /\ config' = config
        /\ games' = games
        /\ Len(players') = Len(players)
        /\ \A i \in DOMAIN players :
              players[i].id # last'.playerId => players'[i] = players[i] ]_vars

\* the second of two players had a submission accepted (the first one's
\* record is the one the store was seeded with)
C15_Witness ==
  /\ last.op = "picks"
  /\ last.resp = "ok"
  /\ last.playerId = 2
  /\ Len(players) = 2
  /\ players[1] = Filler
  /\ players[2].picks[last.day] = last.picks

\* C19: an accepted submission marked as a buyback sets the player's
\* status to alive, adds exactly 1 to buybacks and exactly 25 to
\* totalSpent, clears needsBuyback, records the list under the day with
\* result pending, and leaves the picks and results of all other days (and
\* the id and name) as they were.
C19_BuybackEffect ==
  [][ ( last'.op = "picks" /\ last'.resp = "ok" /\ last'.isBuyback ) =>
        LET before == PlayerOf(players, last'.playerId)
            after == PlayerOf(players', last'.playerId)
        IN  /\ after.status = "alive"
            /\ after.buybacks = before.buybacks + 1
            /\ after.totalSpent = before.totalSpent + 25
            /\ after.needsBuyback = FALSE
            /\ after.id = before.id
            /\ after.name = before.name
            /\ DOMAIN after.picks = DOMAIN before.picks \cup { last'.day }
            /\ DOMAIN after.results = DOMAIN before.results \cup { last'.day }
            /\ after.picks[last'.day] = last'.picks
            /\ after.results[last'.day] = "pending"
            /\ \A d \in DOMAIN before.picks \ { last'.day } :
                  after.picks[d] = before.picks[d]
            /\ \A d \in DOMAIN before.results \ { last'.day } :
                  after.results[d] = before.results[d] ]_vars

\* a third buyback was accepted with three teams, for a player who holds
\* a list of an earlier day
C19_Witness ==
  /\ last.op = "picks"
  /\ last.resp = "ok"
  /\ last.isBuyback
  /\ Len(last.picks) = 3
  /\ LET player == PlayerOf(players, last.playerId)
     IN  /\ player.status = "alive"
         /\ player.buybacks = 3
         /\ player.totalSpent = 100
         /\ ~player.needsBuyback
         /\ player.results[last.day] = "pending"
  /\ \E i \in DOMAIN players : DOMAIN players[i].picks \ { last.day } # {}

\* the ids of a player list are pairwise distinct positive integers
UniquePositiveIds(ps) ==
  /\ \A i \in DOMAIN ps : ps[i].id \in Nat /\ ps[i].id >= 1
  /\ \A i, j \in DOMAIN ps : i # j => ps[i].id # ps[j].id

\* C18: after any sequence of admin player create, update and delete
\* requests the stored players have pairwise distinct ids, each a positive
\* integer, and a create (the request that makes the list longer) gives
\* the new player an id above every id in the list before it.
C18_UniqueIds ==
  /\ [] UniquePositiveIds(players)
  /\ [][ ( last'.op = "player" /\ Len(players') = Len(players) + 1 )
           => \A i \in DOMAIN players :
                 players'[Len(players')].id > players[i].id ]_vars

\* a player was deleted and the list is left with the id 2 alone
C18_WitnessDelete ==
  /\ last.op = "delete"
  /\ last.resp = "ok"
  /\ Len(players) = 1
  /\ players[1].id = 2

\* two players are stored after four requests (so a create followed an
\* update or a delete), the last of them an admin player request
C18_Witness ==
  /\ last.op = "player"
  /\ remaining = 0
  /\ Len(players) = 2
  /\ players[1].id = 1
  /\ players[2].id = 2
  /\ players[2] = newPlayer(<< players[1] >>, EmptyObj)

----------------------------------------------------------------------------
(* Invariants of the config and of the game list.                          *)

\* C16: currentDay is unset or one of the ten identifiers of DAY_ORDER,
\* after any sequence of day processing, admin config updates and pick
\* submissions.
C16_CurrentDayInOrder ==
  config.currentDay = NULL
    \/ \E k \in DOMAIN DAY_ORDER : config.currentDay = DAY_ORDER[k]

\* C17: every game whose winner field is set has a winner equal to its
\* home team or its away team, after any sequence of game uploads and
\* game-result updates.
C17_WinnerPlays ==
  \A d \in DOMAIN games : \A k \in DOMAIN games[d] :
     games[d][k].winner # NULL
       => games[d][k].winner \in { games[d][k].home, games[d][k].away }

----------------------------------------------------------------------------
(* Overlapping requests in serve.mjs.                                      *)

Perms(n) ==
  { f \in [1..n -> 1..n] : \A i, j \in 1..n : i # j => f[i] # f[j] }

\* the requests of serve.mjs that were answered
Answered == SelectSeq(pending.reqs, LAMBDA e : e.pc = "done")

\* the requests run one after the other, each as an atomic handler
RECURSIVE SerialRun(_, _)
SerialRun(st, seq) ==
  IF seq = << >> THEN [stores |-> st, resps |-> << >>]
  ELSE LET one == atomicHandler(st, Head(seq))
           rest == SerialRun(one.stores, Tail(seq))
       IN  [stores |-> rest.stores, resps |-> << one.resp >> \o rest.resps]

\* C14: whatever way pick submissions and day-processing requests overlap,
\* the stored state equals the result of running the answered requests one
\* after the other in some order, each request got the response it gets
\* in that order, and so no accepted update is lost.
C14_Serializable ==
  pending.reqs # << >> =>
    \E f \in Perms(Len(Answered)) :
       LET seq == [i \in 1..Len(Answered) |-> Answered[f[i]].req]
           run == SerialRun(pending.origin, seq)
       IN  /\ run.stores = Stores(config, players, games)
           /\ \A i \in 1..Len(Answered) : run.resps[i] = seq[i].resp

\* two accepted submissions of different players, each received before
\* the other one wrote the player file, are both stored
C14_Witness ==
  \E j, k \in DOMAIN pending.reqs :
     /\ j # k
     /\ \A m \in {j, k} :
           /\ pending.reqs[m].req.op = "picks"
           /\ pending.reqs[m].req.resp = "ok"
           /\ pending.reqs[m].snap.players = pending.origin.players
     /\ pending.reqs[j].req.playerId # pending.reqs[k].req.playerId

\* a submission received before a day-processing request of the same day
\* and answered after it
C14_WitnessProcessDay ==
  \E j, k \in DOMAIN pending.reqs :
     /\ j < k
     /\ pending.reqs[j].req.op = "picks"
     /\ pending.reqs[j].req.resp = "ok"
     /\ pending.reqs[k].req.op = "process-day"
     /\ pending.reqs[k].req.resp = "ok"
     /\ pending.reqs[k].req.day = pending.reqs[j].req.day
     /\ last = pending.reqs[j].req

----------------------------------------------------------------------------
(* The winners set of day processing.                                      *)

\* the games of a day that are not final, or final with no winner recorded
UndecidedGames(gs, day) ==
  IF day \in DOMAIN gs
  THEN { k \in DOMAIN gs[day] : ~gs[day][k].final \/ gs[day][k].winner = NULL }
  ELSE {}

\* C20: a process-day request that names a day is answered ok whatever the
\* state of the day's games, and it evaluates every alive player with a
\* list for the day against exactly the winners of the games that are
\* final and have a winner: the result is win when every pick is such a
\* winner and loss otherwise, so a player with a pick from a game that is
\* not final, or final without a winner, loses and is eliminated.
C20_WinnersSet ==
  [][ ( last'.op = "process-day" /\ last'.day # NULL ) =>
        /\ last'.resp = "ok"
        /\ \A i \in DOMAIN players :
              Picked(players[i], last'.day) =>
                /\ players'[i].results[last'.day] =
                      IF \A k \in DOMAIN players[i].picks[last'.day] :
                            players[i].picks[last'.day][k] \in WinnersOf(games, last'.day)
                      THEN "win" ELSE "loss"
                /\ ( \E g \in UndecidedGames(games, last'.day) :
                       \E k \in DOMAIN players[i].picks[last'.day] :
                          /\ players[i].picks[last'.day][k]
                                \in { games[last'.day][g].home, games[last'.day][g].away }
                          /\ players[i].picks[last'.day][k]
                                \notin WinnersOf(games, last'.day) )
                    => /\ players'[i].results[last'.day] = "loss"
                       /\ players'[i].status = "eliminated" ]_vars

\* a day was processed whose only game is final without a winner, and a
\* player who picked its home team was eliminated with a loss
C20_Witness ==
  /\ last.op = "process-day"
  /\ last.resp = "ok"
  /\ Has(games, last.day)
  /\ Len(games[last.day]) = 1
  /\ games[last.day][1].final
  /\ games[last.day][1].winner = NULL
  /\ \E i \in DOMAIN players :
        /\ Has(players[i].picks, last.day)
        /\ players[i].picks[last.day] = << games[last.day][1].home >>
        /\ players[i].results[last.day] = "loss"
        /\ players[i].status = "eliminated"

\* the same with a game that has a winner recorded but is not final
C20_WitnessNotFinal ==
  /\ last.op = "process-day"
  /\ last.resp = "ok"
  /\ Has(games, last.day)
  /\ Len(games[last.day]) = 1
  /\ ~games[last.day][1].final
  /\ games[last.day][1].winner # NULL
  /\ \E i \in DOMAIN players :
        /\ Has(players[i].picks, last.day)
        /\ players[i].picks[last.day] = << games[last.day][1].winner >>
        /\ players[i].results[last.day] = "loss"

----------------------------------------------------------------------------
(* Invariants of the contest as played (players created with the default  *)
(* values; pick submissions, game uploads and results, day processing).    *)

\* C21: every player created with the default values has
\* totalSpent = 25 * (1 + buybacks) after any sequence of pick submissions,
\* with or without the buyback flag, and day processing.
C21_SpendMatchesBuybacks ==
  \A i \in DOMAIN players :
     players[i].totalSpent = 25 * (1 + players[i].buybacks)

\* a player bought back once after a day was processed: spend 50
C21_Witness ==
  /\ last.op = "picks"
  /\ last.resp = "ok"
  /\ last.isBuyback
  /\ \E i \in DOMAIN players :
        /\ players[i].id = last.playerId
        /\ players[i].buybacks = 1
        /\ players[i].totalSpent = 50
        /\ \E d \in DOMAIN players[i].results : players[i].results[d] = "loss"

\* C22: for every player that starts alive with needsBuyback false, after
\* any sequence of pick submissions and day processing, needsBuyback set
\* implies that the status is eliminated and that buybacks is below 3.
C22_FlagImpliesEliminated ==
  \A i \in DOMAIN players :
     players[i].needsBuyback
       => players[i].status = "eliminated" /\ players[i].buybacks < 3

\* a player with three buybacks lost on a buyback-eligible day and is
\* not flagged
C22_WitnessLimit ==
  /\ last.op = "process-day"
  /\ last.day \in config.buybackDays
  /\ \E i \in DOMAIN players :
        /\ players[i].buybacks = 3
        /\ players[i].totalSpent = 100
        /\ Has(players[i].results, last.day)
        /\ players[i].results[last.day] = "loss"
        /\ ~players[i].needsBuyback

\* a player lost on a buyback-eligible day and is flagged, and then had a
\* submission without the buyback flag accepted
C22_Witness ==
  /\ last.op = "picks"
  /\ last.resp = "ok"
  /\ ~last.isBuyback
  /\ \E i \in DOMAIN players :
        /\ players[i].id = last.playerId
        /\ players[i].needsBuyback
        /\ players[i].status = "eliminated"

\* a player lost on a buyback-eligible day and is flagged
C22_WitnessFlagged ==
  /\ last.op = "process-day"
  /\ \E i \in DOMAIN players :
        /\ players[i].needsBuyback
        /\ players[i].status = "eliminated"
        /\ Has(players[i].results, last.day)
        /\ players[i].results[last.day] = "loss"

\* the position of a day in DAY_ORDER, 0 when unset
DayPosition(day) ==
  IF \E k \in 1..10 : DAY_ORDER[k] = day
  THEN CHOOSE k \in 1..10 : DAY_ORDER[k] = day
  ELSE 0

\* C23: over any sequence of process-day requests, whatever their day
\* arguments, the position of currentDay in DAY_ORDER never decreases.
C23_NeverBackward ==
  [][ ProcessStep =>
        DayPosition(config'.currentDay) >= DayPosition(config.currentDay) ]_vars

----------------------------------------------------------------------------
(* The site lock and overlapping requests in serve.mjs.                    *)

\* C24: a pick submission whose handler resumes (and so would write the
\* player file) while siteLocked is set in the stored config is rejected
\* and leaves the player list as it was, however the submission and the
\* admin config request that stored the lock overlap.
C24_LockedNoWrite ==
  [][ \A k \in DOMAIN pending.reqs :
        ( /\ pending.reqs[k].req.op = "picks"
          /\ pending.reqs[k].pc = "parsing"
          /\ pending'.reqs[k].pc = "done"
          /\ config.siteLocked )
        => /\ players' = players
           /\ pending'.reqs[k].req.resp # "ok" ]_vars

====
